---- MODULE Spec2Model ----
(***************************************************************************)
(* A model of the sahara dependency-injection container                    *)
(* (src/src/container.js): the registration store, the dependency graph    *)
(* that rejects cycles, the lifetime-aware resolve protocol in its         *)
(* blocking and callback-based forms, and child containers.                *)
(*                                                                         *)
(* Collaborators whose code is not part of container.js (the dep-graph     *)
(* library, ./lifetime, ./builder, ./util, the async library) are modelled *)
(* from their documented contracts.                                        *)
(***************************************************************************)
EXTENDS Integers, Sequences, FiniteSets, TLC

\* ------------------------------------------------------------------ bounds

\* Resolution keys the callers use.
Keys == {"A", "B", "C"}

\* The root container and the one child it may fork.
Containers == {"parent", "child"}

\* Longest constructor-argument list of a registered type.
MaxArgs == 1

\* Registration objects allocated by register calls (successful or not).
MaxRegs == 2

\* Objects the builder may construct.
MaxObjs == 3

\* Resolve operations (blocking or callback-based) issued by callers.
MaxResolves == 2

\* Registration objects allocated in the scenarios about the dependency graph.
MaxGraphRegs == 3

\* ------------------------------------------------------------------ values

Undefined == [tag |-> "undefined", id |-> 0]
\* the number 0: a falsy primitive
Zero == [tag |-> "number", id |-> 0]
\* the string 'foo': a truthy primitive
Foo == [tag |-> "string", id |-> 1]
\* objects built by the caller before registration
Obj(n) == [tag |-> "object", id |-> n]
\* objects constructed by the object builder
New(n) == [tag |-> "new", id |-> n]

\* `existing !== null`, which undefined passes
NotNull(v) == TRUE

\* JavaScript truthiness, as used by `if (existing)`
Truthy(v) == ~(v = Undefined \/ v = Zero)

\* ------------------------------------------------------------------ errors

NoError == [name |-> "none", a |-> "", b |-> ""]
\* an error message that leaves the key out
createUnregisteredErrorNoKey(key) == [name |-> "Unregistered", a |-> "", b |-> ""]
createUnregisteredError(key) == [name |-> "Unregistered", a |-> key, b |-> ""]
CyclicError(from, to) == [name |-> "Cyclic", a |-> from, b |-> to]
MissingKeyError == [name |-> "MissingKey", a |-> "", b |-> ""]
StackOverflow == [name |-> "RangeError", a |-> "", b |-> ""]
UserError(e) == [name |-> "user", a |-> e, b |-> ""]

\* ------------------------------------------------------------------ state

VARIABLES
    forked,         \* TRUE once createChildContainer has produced the child
    registrations,  \* container -> key -> registration object (0: none)
    regObjs,        \* the Registration objects, by identity
    graphMap,       \* container -> key -> array object of graph.map (0: none)
    arrays,         \* the arrays held in graph.map, by identity
    nextObj,        \* number of objects constructed so far
    resolves,       \* number of resolve operations issued so far
    calls,          \* callback-based resolves: their closures and callbacks
    stats,          \* per Registration object: what resolves did to it
    handlerConfigs, \* container -> the entries of its handlerConfigs array
    configObjs,     \* the handlerConfig objects built by intercept, by identity
    last            \* what the last operation did and returned

vars == <<forked, registrations, regObjs, graphMap, arrays, nextObj,
          resolves, calls, stats, handlerConfigs, configObjs, last>>

\* ------------------------------------------------------------------ helpers

InSeq(x, s) == \E i \in 1..Len(s) : s[i] = x

\* Sequences over S of length at most n
SeqsUpTo(S, n) == UNION {[1..m -> S] : m \in 0..n}

Other(c) == IF c = "parent" THEN "child" ELSE "parent"

\* The key argument of a call that passes none (options.key is undefined)
NoKey == ""

Exists(c) == c = "parent" \/ forked

\* ------------------------------------------------------------------ lifetimes

\* lifetimes.Transient: never caches
Transient == [policy |-> "Transient", has |-> FALSE, value |-> Undefined]

\* a caching lifetime that keeps the first stored value forever
Singleton == [policy |-> "Singleton", has |-> FALSE, value |-> Undefined]

\* lifetime.fetch()
fetch(lifetime) == IF lifetime.policy = "Singleton" /\ lifetime.has
                   THEN lifetime.value
                   ELSE Undefined

\* lifetime.store(value)
store(lifetime, value) ==
    IF lifetime.policy = "Singleton" /\ ~lifetime.has
    THEN [lifetime EXCEPT !.has = TRUE, !.value = value]
    ELSE lifetime

\* ------------------------------------------------------------------ registrations

NoFactory == [outcome |-> "none", value |-> Undefined, err |-> NoError]
\* a factory that produces value v
FactoryReturning(v) == [outcome |-> "return", value |-> v, err |-> NoError]
\* a factory that signals failure e
FactoryFailing(e) == [outcome |-> "fail", value |-> Undefined, err |-> UserError(e)]

\* function Registration(name, lifetime, injections): lifetime and injections
\* are sequences of length 0 (the argument was not given) or hold the value given
Registration(name, lifetime, injections) ==
    [name |-> name,
     lifetime |-> IF lifetime = <<>> THEN Transient ELSE lifetime[1],
     injections |-> injections,
     kind |-> "none", args |-> <<>>, instance |-> Undefined, factory |-> NoFactory]

TypeRegistration(name, lifetime, injections, typeInfo) ==
    [Registration(name, lifetime, injections)
        EXCEPT !.kind = "type", !.args = typeInfo.args]

InstanceRegistration(name, lifetime, injections, instance) ==
    [Registration(name, lifetime, injections)
        EXCEPT !.kind = "instance", !.instance = instance]

FactoryRegistration(name, lifetime, injections, factory) ==
    [Registration(name, lifetime, injections)
        EXCEPT !.kind = "factory", !.factory = factory]

\* A store that keeps the registration a key already has
PutRegistrationKeepFirst(regs, c, key, id) ==
    IF regs[c][key] # 0 THEN regs ELSE [regs EXCEPT ![c][key] = id]

\* A store that the containers share instead of each holding its own
PutRegistrationShared(regs, c, key, id) ==
    [o \in Containers |-> [regs[o] EXCEPT ![key] = id]]

\* this.registrations[key] = registration, in container c
PutRegistration(regs, c, key, id) == [regs EXCEPT ![c][key] = id]

\* this.registrations[key] of container c, as a record (kind "none": absent)
Lookup(c, key) ==
    IF registrations[c][key] = 0
    THEN Registration(key, <<>>, <<>>)
    ELSE regObjs[registrations[c][key]]

isRegistered(c, key) == registrations[c][key] # 0

\* ------------------------------------------------------------------ dependency graph

\* graph.map[k] of container c in graph state g, as a sequence
Children(g, c, k) == IF g.map[c][k] = 0 THEN <<>> ELSE g.arrays[g.map[c][k]]

\* DepGraph.add(id, depId): creates the array on first use, appends depId unless present
GraphAdd(g, c, id, depId) ==
    LET g1 == IF g.map[c][id] = 0
              THEN [map |-> [g.map EXCEPT ![c][id] = Len(g.arrays) + 1],
                    arrays |-> Append(g.arrays, <<>>)]
              ELSE g
        a == g1.map[c][id]
    IN  IF InSeq(depId, g1.arrays[a])
        THEN g1
        ELSE [g1 EXCEPT !.arrays[a] = Append(@, depId)]

\* the loop of registerType over typeInfo.args
RECURSIVE AddArgs(_, _, _, _, _)
AddArgs(g, c, typeName, args, i) ==
    IF i > Len(args)
    THEN g
    ELSE AddArgs(GraphAdd(g, c, typeName, args[i]), c, typeName, args, i + 1)

\* DepGraph.descendantsOf(parent, descendants, branch): depth-first walk that
\* throws when a child is already on the branch being walked
RECURSIVE descendantsOf(_, _, _, _, _)
RECURSIVE descendantsLoop(_, _, _, _, _, _)
descendantsOf(g, c, parent, descendants, branch) ==
    descendantsLoop(g, c, parent, 1, descendants, Append(branch, parent))

descendantsLoop(g, c, parent, i, descendants, branch) ==
    LET children == Children(g, c, parent) IN
    IF i > Len(children)
    THEN [thrown |-> FALSE, err |-> NoError, descendants |-> descendants]
    ELSE LET child == children[i] IN
         IF InSeq(child, branch)
         THEN [thrown |-> TRUE, err |-> CyclicError(parent, child),
               descendants |-> descendants]
         ELSE IF InSeq(child, descendants)
         THEN descendantsLoop(g, c, parent, i + 1, descendants, branch)
         ELSE LET r == descendantsOf(g, c, child, Append(descendants, child), branch)
              IN  IF r.thrown
                  THEN r
                  ELSE descendantsLoop(g, c, parent, i + 1, r.descendants, branch)

\* DepGraph.getChain(id): only its failure matters, the chain is discarded
getChain(g, c, id) == descendantsOf(g, c, id, <<>>, <<>>)

\* The edges of container c's graph, as a set of pairs
Edges(c) == {<<k, d>> \in Keys \X Keys : InSeq(d, Children([map |-> graphMap, arrays |-> arrays], c, k))}

\* ------------------------------------------------------------------ injections

\* The injection objects callers register: "i1" and "i2" always succeed,
\* "f1" and "f2" always fail, with the failure values e1 and e2.
Injections == {"i1", "i2", "f1", "f2"}

InjectionError(inj) ==
    IF inj = "f1" THEN UserError("e1")
    ELSE IF inj = "f2" THEN UserError("e2")
    ELSE NoError

\* ------------------------------------------------------------------ resolution

\* One observable step of a resolution: a call of lifetime.fetch ("fetch") or
\* lifetime.store ("store"), of the builder's instantiation ("build"), of a
\* factory ("factory") or of an injection ("inject"), for Registration object reg.
Ev(e, reg, v, inj) == [e |-> e, reg |-> reg, v |-> v, inj |-> inj]

NoStats == [resolved |-> FALSE, first |-> Undefined, injRuns |-> 0]

\* The state a resolution reads and writes, with the log of its steps
ResolutionState ==
    [registrations |-> registrations, regObjs |-> regObjs, nextObj |-> nextObj,
     stats |-> stats, log |-> <<>>]

Logged(st, ev) == [st EXCEPT !.log = Append(@, ev)]

Result(st, err, value) == [st |-> st, err |-> err, value |-> value]

\* injection.injectSync / injection.inject is invoked on the instance
Invoke(st, id, inj, instance) ==
    [Logged(st, Ev("inject", id, instance, inj)) EXCEPT !.stats[id].injRuns = @ + 1]

\* a loop over the injections that starts at the end of the list
RECURSIVE injectSyncBackwards(_, _, _, _, _)
injectSyncBackwards(st, id, injections, instance, i) ==
    IF i > Len(injections)
    THEN Result(st, NoError, instance)
    ELSE LET inj == injections[Len(injections) + 1 - i]
             st1 == Invoke(st, id, inj, instance)
         IN  IF InjectionError(inj) # NoError
             THEN Result(st1, InjectionError(inj), Undefined)
             ELSE injectSyncBackwards(st1, id, injections, instance, i + 1)

\* registration.injections.forEach(injectSync): in list order, an exception
\* thrown by one injection ends the loop
RECURSIVE injectSync(_, _, _, _, _)
injectSync(st, id, injections, instance, i) ==
    IF i > Len(injections)
    THEN Result(st, NoError, instance)
    ELSE LET st1 == Invoke(st, id, injections[i], instance) IN
         IF InjectionError(injections[i]) # NoError
         THEN Result(st1, InjectionError(injections[i]), Undefined)
         ELSE injectSync(st1, id, injections, instance, i + 1)

\* async.forEach(registration.injections, inject) run to its end with the
\* completions arriving in list order: every injection is invoked, the first
\* failure is the one reported
RECURSIVE injectAll(_, _, _, _, _, _)
injectAll(st, id, injections, instance, i, err) ==
    IF i > Len(injections)
    THEN Result(st, err, instance)
    ELSE injectAll(Invoke(st, id, injections[i], instance), id, injections, instance,
                   i + 1,
                   IF err = NoError THEN InjectionError(injections[i]) ELSE err)

\* registration.lifetime.store(instance), and the bookkeeping of a resolution
\* that succeeded
Stored(st, id, instance) ==
    [Logged(st, Ev("store", id, instance, ""))
        EXCEPT !.regObjs[id].lifetime = store(@, instance),
               !.stats[id] = IF @.resolved THEN @
                             ELSE [@ EXCEPT !.resolved = TRUE, !.first = instance]]

\* A cache hit is a successful resolution too
Hit(st, id, existing) ==
    [st EXCEPT !.stats[id] = IF @.resolved THEN @
                             ELSE [@ EXCEPT !.resolved = TRUE, !.first = existing]]

\* mode "sync": resolveSync, builder.newInstanceSync, injectSync.
\* mode "async": resolve, builder.newInstance, inject, each nested callback run
\* to completion in declaration order.
\* stack holds the keys whose resolution is in progress: resolving one of them
\* again recurses without end, which the runtime ends with a RangeError.
RECURSIVE ResolveRec(_, _, _, _, _)
RECURSIVE ResolveArgs(_, _, _, _, _, _, _)
RECURSIVE Construct(_, _, _, _, _)

\* the object builder: resolves every constructor argument through the
\* container, then instantiates
ResolveArgs(mode, c, args, i, st, stack, err) ==
    IF i > Len(args)
    THEN Result(st, err, Undefined)
    ELSE LET r == ResolveRec(mode, c, args[i], st, stack) IN
         IF mode = "sync" /\ r.err # NoError
         THEN Result(r.st, r.err, Undefined)
         ELSE ResolveArgs(mode, c, args, i + 1, r.st, stack,
                          IF err = NoError THEN r.err ELSE err)

newInstance(mode, c, id, st, stack) ==
    LET a == ResolveArgs(mode, c, st.regObjs[id].args, 1, st, stack, NoError) IN
    IF a.err # NoError
    THEN Result(a.st, a.err, Undefined)
    ELSE LET obj == New(a.st.nextObj + 1) IN
         Result([Logged(a.st, Ev("build", id, obj, "")) EXCEPT !.nextObj = @ + 1],
                NoError, obj)

\* registration.factory(container [, callback])
callFactory(id, st) ==
    LET f == st.regObjs[id].factory IN
    Result(Logged(st, Ev("factory", id, f.value, "")), f.err, f.value)

\* a dispatch that sends instance registrations to the builder as well
ConstructNoInstance(mode, c, id, st, stack) ==
    IF st.regObjs[id].kind = "factory"
    THEN callFactory(id, st)
    ELSE newInstance(mode, c, id, st, stack)

\* the dispatch on the registration's kind
Construct(mode, c, id, st, stack) ==
    LET registration == st.regObjs[id] IN
    IF registration.kind = "instance"
    THEN Result(st, NoError, registration.instance)
    ELSE IF registration.kind = "type"
    THEN newInstance(mode, c, id, st, stack)
    ELSE callFactory(id, st)

ResolveRec(mode, c, key, st, stack) ==
    LET id == st.registrations[c][key] IN
    IF id = 0
    THEN Result(st, createUnregisteredError(key), Undefined)
    ELSE IF InSeq(key, stack)
    THEN Result(st, StackOverflow, Undefined)
    ELSE LET registration == st.regObjs[id]
             existing == fetch(registration.lifetime)
             st1 == Logged(st, Ev("fetch", id, existing, ""))
         IN  IF Truthy(existing)
             THEN Result(Hit(st1, id, existing), NoError, existing)
             ELSE LET b == Construct(mode, c, id, st1, Append(stack, key)) IN
                  IF b.err # NoError
                  THEN b
                  ELSE LET j == IF mode = "sync"
                                THEN injectSync(b.st, id, registration.injections,
                                                b.value, 1)
                                ELSE injectAll(b.st, id, registration.injections,
                                               b.value, 1, NoError)
                       IN  IF j.err # NoError
                           THEN j
                           ELSE Result(Stored(j.st, id, b.value), NoError, b.value)

\* ------------------------------------------------------------------ operations

\* What an operation reports: the exception it threw (threw) or the value it
\* returned, the steps it took, and for resolve the index of its call record
Report(op, c, key, err, threw, value, log, call) ==
    [op |-> op, c |-> c, key |-> key, err |-> err, threw |-> threw,
     value |-> value, log |-> log, call |-> call]

\* registerType validating the graph before the new type's edges are added
RegisterTypeCheckFirst(c, key, args, lifetime, injections) ==
    /\ Exists(c)
    /\ LET typeInfo == [name |-> key, args |-> args]
           typeName == typeInfo.name
           id == Len(regObjs) + 1
           g0 == [map |-> graphMap, arrays |-> arrays]
           g == AddArgs(g0, c, typeName, typeInfo.args, 1)
           chain == getChain(g0, c, typeName)
       IN  /\ regObjs' = Append(regObjs,
                                TypeRegistration(typeName, lifetime, injections, typeInfo))
           /\ registrations' = PutRegistration(registrations, c, typeName, id)
           /\ graphMap' = g.map
           /\ arrays' = g.arrays
           /\ stats' = Append(stats, NoStats)
           /\ last' = Report("registerType", c, typeName, chain.err, chain.thrown,
                             Undefined, <<>>, 0)
    /\ UNCHANGED <<forked, nextObj, resolves, calls,
                 handlerConfigs, configObjs>>

\* Container.prototype.registerType
RegisterType(c, key, args, lifetime, injections) ==
    /\ Exists(c)
    /\ LET typeInfo == [name |-> key, args |-> args]
           typeName == typeInfo.name
           id == Len(regObjs) + 1
           g == AddArgs([map |-> graphMap, arrays |-> arrays], c, typeName,
                        typeInfo.args, 1)
           chain == getChain(g, c, typeName)
       IN  /\ regObjs' = Append(regObjs,
                                TypeRegistration(typeName, lifetime, injections, typeInfo))
           /\ registrations' = PutRegistration(registrations, c, typeName, id)
           /\ graphMap' = g.map
           /\ arrays' = g.arrays
           /\ stats' = Append(stats, NoStats)
           /\ last' = Report("registerType", c, typeName, chain.err, chain.thrown,
                             Undefined, <<>>, 0)
    /\ UNCHANGED <<forked, nextObj, resolves, calls,
                 handlerConfigs, configObjs>>

\* Container.prototype.registerInstance
RegisterInstance(c, instance, key, lifetime, injections) ==
    /\ Exists(c)
    /\ LET id == Len(regObjs) + 1 IN
           /\ regObjs' = Append(regObjs,
                                InstanceRegistration(key, lifetime, injections, instance))
           /\ registrations' = PutRegistration(registrations, c, key, id)
           /\ stats' = Append(stats, NoStats)
           /\ last' = Report("registerInstance", c, key, NoError, FALSE,
                             Undefined, <<>>, 0)
    /\ UNCHANGED <<forked, graphMap, arrays, nextObj, resolves, calls,
                 handlerConfigs, configObjs>>

\* registerFactory deriving a key from the factory when none is passed, the
\* way registerType derives one from the constructor
RegisterFactoryDefaultKey(c, factory, key, lifetime, injections) ==
    /\ Exists(c)
    /\ LET id == Len(regObjs) + 1
           name == IF key = NoKey THEN "A" ELSE key
       IN  /\ regObjs' = Append(regObjs,
                                FactoryRegistration(name, lifetime, injections, factory))
           /\ registrations' = PutRegistration(registrations, c, name, id)
           /\ stats' = Append(stats, NoStats)
           /\ last' = Report("registerFactory", c, key, NoError, FALSE,
                             Undefined, <<>>, 0)
    /\ UNCHANGED <<forked, graphMap, arrays, nextObj, resolves, calls,
                   handlerConfigs, configObjs>>

\* Container.prototype.registerFactory: without a key (NoKey) it throws before
\* it touches the container
RegisterFactory(c, factory, key, lifetime, injections) ==
    /\ Exists(c)
    /\ IF key = NoKey
       THEN /\ last' = Report("registerFactory", c, key, MissingKeyError, TRUE,
                              Undefined, <<>>, 0)
            /\ UNCHANGED <<regObjs, registrations, stats>>
       ELSE LET id == Len(regObjs) + 1 IN
            /\ regObjs' = Append(regObjs,
                                 FactoryRegistration(key, lifetime, injections, factory))
            /\ registrations' = PutRegistration(registrations, c, key, id)
            /\ stats' = Append(stats, NoStats)
            /\ last' = Report("registerFactory", c, key, NoError, FALSE,
                              Undefined, <<>>, 0)
    /\ UNCHANGED <<forked, graphMap, arrays, nextObj, resolves, calls,
                   handlerConfigs, configObjs>>

\* Container.prototype.createChildContainer: the child's registrations and
\* graph.map get the parent's entries, key by key; the values (Registration
\* objects, arrays of dependency keys) are the parent's own objects
CreateChildContainer ==
    /\ ~forked
    /\ forked' = TRUE
    /\ registrations' = [registrations EXCEPT !["child"] = registrations["parent"]]
    /\ graphMap' = [graphMap EXCEPT !["child"] = graphMap["parent"]]
    /\ handlerConfigs' = [handlerConfigs EXCEPT !["child"] = handlerConfigs["parent"]]
    /\ last' = Report("createChildContainer", "parent", "", NoError, FALSE,
                      Undefined, <<>>, 0)
    /\ UNCHANGED <<regObjs, arrays, nextObj, resolves, calls, stats,
                 configObjs>>

\* Container.prototype.resolveSync
ResolveSync(c, key) ==
    /\ Exists(c)
    /\ LET r == ResolveRec("sync", c, key, ResolutionState, <<>>) IN
           /\ r.st.nextObj <= MaxObjs
           /\ regObjs' = r.st.regObjs
           /\ nextObj' = r.st.nextObj
           /\ stats' = r.st.stats
           /\ last' = Report("resolveSync", c, key, r.err, r.err # NoError,
                             IF r.err # NoError THEN Undefined ELSE r.value,
                             r.st.log, 0)
    /\ resolves' = resolves + 1
    /\ UNCHANGED <<forked, registrations, graphMap, arrays, calls,
                 handlerConfigs, configObjs>>

\* Container.prototype.tryResolveSync
TryResolveSync(c, key) ==
    /\ Exists(c)
    /\ LET r == ResolveRec("sync", c, key, ResolutionState, <<>>) IN
           /\ r.st.nextObj <= MaxObjs
           /\ regObjs' = r.st.regObjs
           /\ nextObj' = r.st.nextObj
           /\ stats' = r.st.stats
           /\ last' = Report("tryResolveSync", c, key, NoError, FALSE,
                             IF r.err # NoError THEN Undefined ELSE r.value,
                             r.st.log, 0)
    /\ resolves' = resolves + 1
    /\ UNCHANGED <<forked, registrations, graphMap, arrays, calls,
                 handlerConfigs, configObjs>>

\* ------------------------------------------------------------------ callback-based resolve

\* The closure of one resolve(key, callback) call: the registration and the
\* instance it captured, the state of async.forEach over the injections
\* (pending: started injections whose completion has not been processed;
\* completed: the counter of successful completions; live: the completion
\* callback has not been invoked or replaced yet), and what the caller's
\* callback received (cbCount: how often it was invoked). op tells whose
\* completion callback async.forEach holds: the one resolve passes to inject
\* ("resolve") or the callback of a caller of inject ("inject").
CallRecord(c, key, reg, instance, injections, pending, live, cbCount, cbErr, cbValue) ==
    [op |-> "resolve", c |-> c, key |-> key, reg |-> reg, instance |-> instance,
     injections |-> injections, pending |-> pending, completed |-> 0,
     live |-> live, cbCount |-> cbCount, cbErr |-> cbErr, cbValue |-> cbValue]

\* callback(err, value) invoked before resolve returns
Completed(c, key, reg, instance, err, value) ==
    CallRecord(c, key, reg, instance, <<>>, {}, FALSE, 1, err, value)

\* a loop that waits for an injection before it starts the next: only the
\* first one is started before the call returns
startFirst(st, id, injections, instance, i) ==
    IF injections = <<>> THEN st ELSE Invoke(st, id, injections[1], instance)

\* injection.inject is invoked for every injection of the list, in list order
RECURSIVE startAll(_, _, _, _, _)
startAll(st, id, injections, instance, i) ==
    IF i > Len(injections)
    THEN st
    ELSE startAll(Invoke(st, id, injections[i], instance), id, injections,
                  instance, i + 1)

\* a completion callback that never stores
injectCallbackNeverStore(st, id, instance, err) == st

\* a completion callback that stores whatever inject reported
injectCallbackAlwaysStore(st, id, instance, err) == Stored(st, id, instance)

\* The completion callback resolve passes to inject: store unless an
\* injection failed
injectCallback(st, id, instance, err) ==
    IF err = NoError THEN Stored(st, id, instance) ELSE st

\* injectAndReturn without its check of err
injectAndReturnNoErrCheck(c, key, id, b) ==
    LET injections == regObjs[id].injections IN
    IF injections = <<>>
    THEN [st |-> injectCallback(b.st, id, b.value, NoError),
          call |-> Completed(c, key, id, b.value, NoError, b.value)]
    ELSE [st |-> startAll(b.st, id, injections, b.value, 1),
          call |-> CallRecord(c, key, id, b.value, injections,
                              1..Len(injections), TRUE, 0, NoError, Undefined)]

\* injectAndReturn(err, instance) of resolve, with b what the construction
\* reported: a failure goes to the caller's callback and ends the call;
\* otherwise inject starts every injection, or completes at once when the
\* registration has none
injectAndReturn(c, key, id, b) ==
    LET injections == regObjs[id].injections IN
    IF b.err # NoError
    THEN [st |-> b.st, call |-> Completed(c, key, id, Undefined, b.err, Undefined)]
    ELSE IF injections = <<>>
    THEN [st |-> injectCallback(b.st, id, b.value, NoError),
          call |-> Completed(c, key, id, b.value, NoError, b.value)]
    ELSE [st |-> startAll(b.st, id, injections, b.value, 1),
          call |-> CallRecord(c, key, id, b.value, injections,
                              1..Len(injections), TRUE, 0, NoError, Undefined)]

\* Container.prototype.resolve up to its return: everything but the
\* completions of the injections, which arrive on later ticks
resolveStart(c, key) ==
    LET id == registrations[c][key]
        st0 == ResolutionState
    IN
    IF id = 0
    THEN [st |-> st0,
          call |-> Completed(c, key, 0, Undefined, createUnregisteredError(key), Undefined)]
    ELSE
    LET existing == fetch(regObjs[id].lifetime)
        st1 == Logged(st0, Ev("fetch", id, existing, ""))
    IN
    IF Truthy(existing)
    THEN [st |-> Hit(st1, id, existing),
          call |-> Completed(c, key, id, existing, NoError, existing)]
    ELSE injectAndReturn(c, key, id, Construct("async", c, id, st1, <<key>>))

Resolve(c, key) ==
    /\ Exists(c)
    /\ LET r == resolveStart(c, key) IN
           /\ r.st.nextObj <= MaxObjs
           /\ regObjs' = r.st.regObjs
           /\ nextObj' = r.st.nextObj
           /\ stats' = r.st.stats
           /\ calls' = Append(calls, r.call)
           /\ last' = Report("resolve", c, key, r.call.cbErr, FALSE, r.call.cbValue,
                             r.st.log, Len(calls) + 1)
    /\ resolves' = resolves + 1
    /\ UNCHANGED <<forked, registrations, graphMap, arrays,
                 handlerConfigs, configObjs>>

\* The callback async.forEach hands to the iterator for item i, invoked with
\* err: a failure goes to the completion callback at once, which is then
\* replaced by a no-op; a success is counted, and the completion callback is
\* invoked when the count reaches the length of the list
forEachNext(call, i, err) ==
    LET count == IF err = NoError THEN call.completed + 1 ELSE call.completed
        fails == err # NoError /\ call.live
        succeeds == err = NoError /\ count = Len(call.injections) /\ call.live
    IN  [call |-> [call EXCEPT !.pending = @ \ {i},
                               !.completed = count,
                               !.live = @ /\ ~fails /\ ~succeeds],
         fired |-> fails \/ succeeds,
         err |-> IF fails THEN err ELSE NoError]

\* a tick that hands err to the completion callback itself, not to async.forEach
InjectionDoneCallsBack(n, i) ==
    /\ n \in 1..Len(calls)
    /\ i \in calls[n].pending
    /\ LET call == calls[n]
           err == InjectionError(call.injections[i])
           st == IF call.op = "resolve"
                 THEN injectCallback(ResolutionState, call.reg, call.instance, err)
                 ELSE ResolutionState
       IN  /\ calls' = [calls EXCEPT ![n] =
                  [call EXCEPT !.pending = @ \ {i},
                               !.cbCount = @ + 1,
                               !.cbErr = err,
                               !.cbValue = IF call.op = "resolve"
                                           THEN call.instance ELSE @]]
           /\ regObjs' = st.regObjs
           /\ stats' = st.stats
           /\ last' = Report("injectionDone", call.c, call.key, err, FALSE,
                             Undefined, st.log, n)
    /\ UNCHANGED <<forked, registrations, graphMap, arrays, nextObj, resolves,
                   handlerConfigs, configObjs>>

\* The tick on which injection i of call n passes its outcome to async.forEach.
\* The completion callback of a resolve stores the instance unless err is set
\* and hands err and the instance to the caller; the completion callback of an
\* inject is the caller's own, which gets err only.
InjectionDone(n, i) ==
    /\ n \in 1..Len(calls)
    /\ i \in calls[n].pending
    /\ LET call == calls[n]
           err == InjectionError(call.injections[i])
           r == forEachNext(call, i, err)
           st == IF r.fired /\ call.op = "resolve"
                 THEN injectCallback(ResolutionState, call.reg, call.instance, r.err)
                 ELSE ResolutionState
       IN  /\ calls' = [calls EXCEPT ![n] =
                  [r.call EXCEPT !.cbCount = IF r.fired THEN @ + 1 ELSE @,
                                 !.cbErr = IF r.fired /\ r.err # NoError
                                           THEN r.err ELSE @,
                                 !.cbValue = IF r.fired /\ call.op = "resolve"
                                             THEN call.instance ELSE @]]
           /\ regObjs' = st.regObjs
           /\ stats' = st.stats
           /\ last' = Report("injectionDone", call.c, call.key, err, FALSE,
                             Undefined, st.log, n)
    /\ UNCHANGED <<forked, registrations, graphMap, arrays, nextObj, resolves,
                   handlerConfigs, configObjs>>

\* ------------------------------------------------------------------ inject, injectSync

\* The record of one inject(instance, key, callback) call
InjectCall(c, key, reg, instance, injections, pending, live, cbCount, cbErr) ==
    [CallRecord(c, key, reg, instance, injections, pending, live, cbCount, cbErr,
                Undefined)
        EXCEPT !.op = "inject"]

\* Container.prototype.inject up to its return: an unregistered key and an
\* empty injection list invoke the callback at once; otherwise every injection
\* is started and the completions arrive on later ticks
Inject(c, instance, key) ==
    /\ Exists(c)
    /\ LET id == registrations[c][key]
           injections == regObjs[id].injections
           st == startAll(ResolutionState, id, injections, instance, 1)
       IN  IF id = 0
           THEN /\ calls' = Append(calls,
                       InjectCall(c, key, 0, instance, <<>>, {}, FALSE, 1,
                                  createUnregisteredError(key)))
                /\ last' = Report("inject", c, key, createUnregisteredError(key),
                                  FALSE, Undefined, <<>>, Len(calls) + 1)
                /\ stats' = stats
           ELSE IF injections = <<>>
           THEN /\ calls' = Append(calls,
                       InjectCall(c, key, id, instance, <<>>, {}, FALSE, 1, NoError))
                /\ last' = Report("inject", c, key, NoError, FALSE, Undefined,
                                  <<>>, Len(calls) + 1)
                /\ stats' = stats
           ELSE /\ calls' = Append(calls,
                       InjectCall(c, key, id, instance, injections,
                                  1..Len(injections), TRUE, 0, NoError))
                /\ last' = Report("inject", c, key, NoError, FALSE, Undefined,
                                  st.log, Len(calls) + 1)
                /\ stats' = st.stats
    /\ UNCHANGED <<forked, registrations, regObjs, graphMap, arrays, nextObj,
                   resolves, handlerConfigs, configObjs>>

\* Container.prototype.injectSync
InjectSync(c, instance, key) ==
    /\ Exists(c)
    /\ LET id == registrations[c][key]
           r == injectSync(ResolutionState, id, regObjs[id].injections, instance, 1)
       IN  IF id = 0
           THEN /\ last' = Report("injectSync", c, key, createUnregisteredError(key),
                                  TRUE, Undefined, <<>>, 0)
                /\ stats' = stats
           ELSE /\ last' = Report("injectSync", c, key, r.err, r.err # NoError,
                                  Undefined, r.st.log, 0)
                /\ stats' = r.st.stats
    /\ UNCHANGED <<forked, registrations, regObjs, graphMap, arrays, nextObj,
                   resolves, calls, handlerConfigs, configObjs>>

\* ------------------------------------------------------------------ interception

\* The predicate intercept derives from its matcher argument: a string matches
\* the method of that name, an array the instances of a constructor, a function
\* is taken as it is, and anything else matches as its truthiness tells
predicate(matcher) ==
    IF matcher.type = "string"
    THEN [matches |-> "methodName", arg |-> matcher.value]
    ELSE IF matcher.type = "array"
    THEN [matches |-> "instanceOf", arg |-> matcher.value]
    ELSE IF matcher.type # "function"
    THEN [matches |-> "constant", arg |-> matcher.value]
    ELSE [matches |-> "function", arg |-> matcher.value]

\* The handlerConfig object intercept builds; isAsync is not set yet
HandlerConfig(c, matcher, handlers) ==
    [container |-> c, matcher |-> predicate(matcher), handlers |-> handlers,
     isAsync |-> "undefined"]

\* An entry of a handlerConfigs array: a reference to a handlerConfig object,
\* with the function that pushed it (via)
Entry(h, via) == [config |-> h, via |-> via]

\* Container.prototype.intercept: builds the handlerConfig and returns the
\* object whose sync and async close over it
Intercept(c, matcher, handlers) ==
    /\ Exists(c)
    /\ configObjs' = Append(configObjs, HandlerConfig(c, matcher, handlers))
    /\ last' = Report("intercept", c, "", NoError, FALSE, Undefined, <<>>,
                      Len(configObjs) + 1)
    /\ UNCHANGED <<forked, registrations, regObjs, graphMap, arrays, nextObj,
                   resolves, calls, stats, handlerConfigs>>

\* The body of sync() and of async() of the object intercept call h returned:
\* sets isAsync on the handlerConfig and pushes it to the container's list
Commit(h, isAsync, via) ==
    /\ h \in 1..Len(configObjs)
    /\ LET container == configObjs[h].container IN
       /\ configObjs' = [configObjs EXCEPT ![h].isAsync = isAsync]
       /\ handlerConfigs' = [handlerConfigs EXCEPT
                                ![container] = Append(@, Entry(h, via))]
       /\ last' = Report(via, container, "", NoError, FALSE, Undefined, <<>>, h)

\* sync() of the object intercept call h returned
InterceptSync(h) ==
    /\ Commit(h, "false", "sync")
    /\ UNCHANGED <<forked, registrations, regObjs, graphMap, arrays, nextObj,
                   resolves, calls, stats>>

\* async() of the object intercept call h returned
InterceptAsync(h) ==
    /\ Commit(h, "true", "async")
    /\ UNCHANGED <<forked, registrations, regObjs, graphMap, arrays, nextObj,
                   resolves, calls, stats>>

\* ------------------------------------------------------------------ specification

\* What callers pass as the lifetime argument: nothing, or a caching lifetime
LifetimeArgs == {<<>>, <<Singleton>>}

\* What callers pass as injections
InjectionLists == {<<>>, <<"i1", "i2">>, <<"i1", "f1">>}

\* The instances callers register
Instances == {Zero, Foo, Obj(1)}

\* The factories callers register
Factories == {FactoryReturning(Obj(2)), FactoryFailing("fail")}

Init ==
    /\ forked = FALSE
    /\ registrations = [c \in Containers |-> [k \in Keys |-> 0]]
    /\ regObjs = <<>>
    /\ graphMap = [c \in Containers |-> [k \in Keys |-> 0]]
    /\ arrays = <<>>
    /\ nextObj = 0
    /\ resolves = 0
    /\ calls = <<>>
    /\ stats = <<>>
    /\ handlerConfigs = [c \in Containers |-> <<>>]
    /\ configObjs = <<>>
    /\ last = Report("new", "parent", "", NoError, FALSE, Undefined, <<>>, 0)

\* Callers of one container: key A is registered with every kind, lifetime and
\* injection list, key B (a dependency of A's types) with the default options,
\* key C never; every key is resolved in every way
Next ==
    \/ \E args \in SeqsUpTo(Keys, MaxArgs),
          lifetime \in LifetimeArgs, injections \in InjectionLists :
          /\ Len(regObjs) < MaxRegs
          /\ RegisterType("parent", "A", args, lifetime, injections)
    \/ \E instance \in Instances,
          lifetime \in LifetimeArgs, injections \in InjectionLists :
          /\ Len(regObjs) < MaxRegs
          /\ RegisterInstance("parent", instance, "A", lifetime, injections)
    \/ \E factory \in Factories,
          lifetime \in LifetimeArgs, injections \in InjectionLists :
          /\ Len(regObjs) < MaxRegs
          /\ RegisterFactory("parent", factory, "A", lifetime, injections)
    \/ \E args \in SeqsUpTo(Keys, MaxArgs) :
          /\ Len(regObjs) < MaxRegs
          /\ RegisterType("parent", "B", args, <<>>, <<>>)
    \/ /\ Len(regObjs) < MaxRegs
       /\ RegisterInstance("parent", Obj(1), "B", <<>>, <<>>)
    \/ \E factory \in Factories :
          /\ Len(regObjs) < MaxRegs
          /\ RegisterFactory("parent", factory, "B", <<>>, <<>>)
    \/ \E key \in Keys : resolves < MaxResolves /\ ResolveSync("parent", key)
    \/ \E key \in Keys : resolves < MaxResolves /\ TryResolveSync("parent", key)
    \/ \E key \in Keys : resolves < MaxResolves /\ Resolve("parent", key)
    \/ \E n \in 1..Len(calls) : \E i \in calls[n].pending : InjectionDone(n, i)

Spec == Init /\ [][Next]_vars

\* Callers of a container and of its child that register types and instances
\* under every key with the default options: the registration store and the
\* dependency graph
NextGraph ==
    \/ \E c \in Containers, key \in Keys, args \in SeqsUpTo(Keys, MaxArgs) :
          /\ Len(regObjs) < MaxGraphRegs
          /\ RegisterType(c, key, args, <<>>, <<>>)
    \/ \E c \in Containers, instance \in {Obj(1), Obj(2)}, key \in Keys :
          /\ Len(regObjs) < MaxGraphRegs
          /\ RegisterInstance(c, instance, key, <<>>, <<>>)
    \/ CreateChildContainer

SpecGraph == Init /\ [][NextGraph]_vars

\* Longest list of pending and finished callback-based calls in the scenarios
\* about the injection pipeline.
MaxPipelineCalls == 1

\* Resolve operations that may precede a resolveSync in those scenarios, plus one.
MaxPipelineResolves == 1

\* Most runs of the injections of one registration in those scenarios.
MaxInjRuns == 3

\* What callers pass as injections in the scenarios about the injection
\* pipeline: lists in which a failing injection is followed by another one
PipelineLists == {<<>>, <<"i1", "i2">>, <<"f1", "i1">>, <<"f1", "f2">>}

\* Callers of one container that register key A once, in every kind, and then
\* resolve and inject: key A and key C, which is never registered
NextPipeline ==
    \/ \E lifetime \in LifetimeArgs, injections \in PipelineLists :
          /\ regObjs = <<>>
          /\ RegisterType("parent", "A", <<>>, lifetime, injections)
    \/ \E lifetime \in LifetimeArgs, injections \in PipelineLists :
          /\ regObjs = <<>>
          /\ RegisterInstance("parent", Foo, "A", lifetime, injections)
    \/ \E lifetime \in LifetimeArgs, injections \in PipelineLists :
          /\ regObjs = <<>>
          /\ RegisterFactory("parent", FactoryReturning(Obj(2)), "A", lifetime,
                             injections)
    \/ \E key \in {"A", "C"} :
          /\ Len(calls) < MaxPipelineCalls
          /\ Resolve("parent", key)
    \/ \E key \in {"A", "C"} :
          /\ resolves < MaxPipelineResolves
          /\ ResolveSync("parent", key)
    \/ \E key \in {"A", "C"} :
          /\ Len(calls) < MaxPipelineCalls
          /\ Inject("parent", Obj(3), key)
    \/ \E key \in {"A", "C"} :
          /\ \A id \in 1..Len(stats) : stats[id].injRuns < MaxInjRuns
          /\ InjectSync("parent", Obj(3), key)
    \/ \E n \in 1..Len(calls) : \E i \in calls[n].pending : InjectionDone(n, i)

SpecPipeline == Init /\ [][NextPipeline]_vars

\* intercept calls in the scenarios about interception.
MaxIntercepts == 1

\* Longest handlerConfigs array in those scenarios.
MaxCommits == 2

\* Registration objects allocated in those scenarios.
MaxInterceptRegs == 1

\* The matchers callers pass to intercept: a method name and the boolean true
Matchers == {[type |-> "string", value |-> "foo"], [type |-> "boolean", value |-> "true"]}

\* Callers of a container and of its child that configure interception, call
\* the sync and async of the objects intercept returned as often as they like,
\* call registerFactory without a key at any time (and with a key on the
\* parent before the fork), and register a type
NextIntercept ==
    \/ \E c \in Containers, matcher \in Matchers :
          /\ Len(configObjs) < MaxIntercepts
          /\ Intercept(c, matcher, <<"h1">>)
    \/ \E h \in 1..Len(configObjs) :
          /\ Len(handlerConfigs[configObjs[h].container]) < MaxCommits
          /\ InterceptSync(h)
    \/ \E h \in 1..Len(configObjs) :
          /\ Len(handlerConfigs[configObjs[h].container]) < MaxCommits
          /\ InterceptAsync(h)
    \/ \E c \in Containers, key \in {NoKey, "A"} :
          /\ key # NoKey => (c = "parent" /\ ~forked /\ Len(regObjs) < MaxInterceptRegs)
          /\ RegisterFactory(c, FactoryReturning(Obj(2)), key, <<>>, <<>>)
    \/ \E c \in Containers :
          /\ Len(regObjs) < MaxInterceptRegs
          /\ RegisterType(c, "B", <<"A">>, <<>>, <<>>)
    \/ CreateChildContainer

SpecIntercept == Init /\ [][NextIntercept]_vars

\* Registration objects allocated in the scenarios about resolving after a fork.
MaxForkRegs == 2

\* Resolve operations in those scenarios.
MaxForkResolves == 2

\* Callers of a container and of its child that register key A as a type or as
\* an instance, with and without a caching lifetime, fork, and resolve key A on
\* either container in the blocking and in the callback-based form
NextFork ==
    \/ \E c \in Containers, lifetime \in LifetimeArgs :
          /\ Len(regObjs) < MaxForkRegs
          /\ RegisterType(c, "A", <<>>, lifetime, <<"i1">>)
    \/ \E c \in Containers, lifetime \in LifetimeArgs :
          /\ Len(regObjs) < MaxForkRegs
          /\ RegisterInstance(c, Obj(1), "A", lifetime, <<>>)
    \/ CreateChildContainer
    \/ \E c \in Containers :
          /\ resolves < MaxForkResolves
          /\ ResolveSync(c, "A")
    \/ \E c \in Containers :
          /\ resolves < MaxForkResolves
          /\ Resolve(c, "A")
    \/ \E n \in 1..Len(calls) : \E i \in calls[n].pending : InjectionDone(n, i)

SpecFork == Init /\ [][NextFork]_vars

\* ------------------------------------------------------------------ properties

RegisterOps == {"registerType", "registerInstance", "registerFactory"}

ResolveOps == {"resolveSync", "tryResolveSync", "resolve"}

\* The keys the edges of container c's graph lead to from key k, in one step or more
RECURSIVE ReachSet(_, _)
ReachSet(E, S) ==
    LET T == S \cup {e[2] : e \in {x \in E : x[1] \in S}} IN
    IF T = S THEN S ELSE ReachSet(E, T)

Reaches(c, from, to) ==
    to \in ReachSet(Edges(c), {e[2] : e \in {x \in Edges(c) : x[1] = from}})

\* What resolveSync(key) on container c would report in container state st
ResolvesToIn(st, c, key) ==
    LET r == ResolveRec("sync", c, key, st, <<>>) IN <<r.err, r.value>>

\* What resolveSync(key) on container c would report in the current state
ResolvesTo(c, key) == ResolvesToIn(ResolutionState, c, key)

\* The Registration object allocated by the register call that was the last operation
NewReg == regObjs[Len(regObjs)]

\* C1: a registerType call that fails with a cyclic-dependency error leaves the
\* key-to-registration map (so isRegistered) and the edges of the dependency
\* graph as they were before the call.
C1_FailedRegisterTypeCommitsNothing ==
    [][(last'.op = "registerType" /\ last'.threw)
        => /\ registrations' = registrations
           /\ \A c \in Containers : Edges(c)' = Edges(c)]_vars

\* C2: a registerType call whose type depends on its own key, or on a key from
\* which the graph's edges (as they were before the call) lead back to the new
\* key, throws a cyclic-dependency error, and the call has constructed nothing.
C2_CycleAlwaysRejected ==
    [][(last'.op = "registerType" /\ regObjs' # regObjs)
        => LET c == last'.c
               key == last'.key
               args == NewReg'.args
           IN  (\E i \in 1..Len(args) : args[i] = key \/ Reaches(c, args[i], key))
               => /\ last'.threw
                  /\ last'.err.name = "Cyclic"
                  /\ nextObj' = nextObj
                  /\ nextObj' = 0]_vars

\* C2 witness: a registration was rejected for a cycle that runs through a
\* second key (the edge that closes it does not start at the new key)
C2_Witness ==
    /\ last.op = "registerType"
    /\ last.threw
    /\ last.err.name = "Cyclic"
    /\ last.err.a # last.key
    /\ last.err.b = last.key

\* C7: once the child exists, a register call on one container leaves the other
\* container's key-to-registration map unchanged, and with it what the other
\* container resolves every key to.
C7_RegistrationsIsolated ==
    [][(forked /\ last'.op \in RegisterOps /\ regObjs' # regObjs)
        => /\ registrations'[last'.c][last'.key] = Len(regObjs')
           /\ \A o \in Containers \ {last'.c} :
                 /\ registrations'[o] = registrations[o]
                 /\ \A k \in Keys :
                       ResolvesToIn(ResolutionState', o, k) = ResolvesTo(o, k)]_vars

\* C7 witness: key A was registered in the parent before the fork and
\* re-registered in the child; the parent resolves it to the original instance
\* and the child to the replacement, and key B, registered in the parent after
\* the fork, is not registered in the child
C7_Witness ==
    /\ forked
    /\ last.op = "registerInstance"
    /\ ResolvesTo("parent", "A") = <<NoError, Obj(1)>>
    /\ ResolvesTo("child", "A") = <<NoError, Obj(2)>>
    /\ isRegistered("parent", "B")
    /\ ~isRegistered("child", "B")

\* C8: once the child exists, a registerType call on one container adds no edge
\* to the other container's dependency graph.
C8_GraphsIsolated ==
    [][(forked /\ last'.op = "registerType" /\ regObjs' # regObjs)
        => \A o \in Containers \ {last'.c} : Edges(o)' = Edges(o)]_vars

\* ------------------------------------------------------------------ properties of resolution

\* The steps of kind e that a log holds for Registration object id
StepsOf(log, e, id) == SelectSeq(log, LAMBDA x : x.e = e /\ x.reg = id)

\* The injections a log shows invoked for Registration object id, in order
Invoked(log, id) ==
    LET sel == StepsOf(log, "inject", id) IN [i \in 1..Len(sel) |-> sel[i].inj]

\* A log in which nothing was constructed and no injection ran
Quiet(log) == \A i \in 1..Len(log) : log[i].e \notin {"build", "factory", "inject"}

\* The step is a resolve operation (of any form) issued on container c for key
IsResolve(op, c, key) ==
    /\ resolves' # resolves
    /\ last'.op = op
    /\ last'.c = c
    /\ last'.key = key

\* C3: for a registration with a caching lifetime, every resolve, resolveSync
\* (or tryResolveSync) after the first successful resolution returns the value
\* of that first resolution and neither constructs nor runs an injection.
C3_SingletonResolvedOnce ==
    [][\A op \in ResolveOps, c \in Containers, key \in Keys :
        LET id == registrations[c][key] IN
        (/\ IsResolve(op, c, key)
         /\ id # 0
         /\ regObjs[id].lifetime.policy = "Singleton"
         /\ stats[id].resolved)
        => /\ ~last'.threw
           /\ last'.err = NoError
           /\ last'.value = stats[id].first
           /\ Quiet(last'.log)
           /\ stats'[id].injRuns = stats[id].injRuns]_vars

\* C4: for a Type registration with the transient lifetime (the default),
\* every resolve and resolveSync goes to the builder: it never returns an
\* instance that existed before the call, a call that returns an instance
\* returns the one object the builder constructed for it during the call, and
\* the injections run on that object again (all of them in list order; in the
\* blocking form up to the first one that throws).
C4_TransientTypeBuiltEveryTime ==
    [][\A op \in ResolveOps, c \in Containers, key \in Keys :
        LET id == registrations[c][key] IN
        (/\ IsResolve(op, c, key)
         /\ id # 0
         /\ regObjs[id].kind = "type"
         /\ regObjs[id].lifetime.policy = "Transient")
        => LET built == StepsOf(last'.log, "build", id)
               ran == Invoked(last'.log, id)
               injections == regObjs[id].injections
               delivered == IF op = "resolve"
                            THEN calls'[last'.call].instance
                            ELSE last'.value
               succeeded == IF op = "resolve"
                            THEN calls'[last'.call].cbErr = NoError
                            ELSE last'.value # Undefined
           IN  /\ Len(built) <= 1
               /\ delivered # Undefined
                    => /\ Len(built) = 1
                       /\ delivered = built[1].v
                       /\ delivered.tag = "new"
                       /\ delivered.id > nextObj
               /\ succeeded => Len(built) = 1 /\ ran = injections
               /\ (Len(built) = 1 /\ op = "resolve") => ran = injections
               /\ (Len(built) = 1 /\ injections # <<>>) => ran # <<>>]_vars

\* C4 witness: a type registered without a lifetime has been resolved twice,
\* the second time to another object than the first (the objects are numbered
\* in the order of their construction), its injections run both times
C4_Witness ==
    /\ last.op = "resolveSync"
    /\ resolves = 2
    /\ registrations["parent"][last.key] # 0
    /\ Lookup("parent", last.key).kind = "type"
    /\ Lookup("parent", last.key).lifetime = Transient
    /\ Lookup("parent", last.key).injections = <<"i1", "i2">>
    /\ last.value = New(2)
    /\ stats[registrations["parent"][last.key]].injRuns = 4

\* C5: while key holds the registration made by registerInstance(v), resolveSync
\* and tryResolveSync return v when they return, the callback of resolve
\* receives v whenever it receives an instance, and none of them calls the
\* builder or a factory.
C5_InstanceResolvesToItself ==
    [][\A op \in ResolveOps, c \in Containers, key \in Keys :
        LET id == registrations[c][key] IN
        (/\ IsResolve(op, c, key)
         /\ id # 0
         /\ regObjs[id].kind = "instance")
        => /\ StepsOf(last'.log, "build", id) = <<>>
           /\ \A i \in 1..Len(last'.log) : last'.log[i].e \notin {"build", "factory"}
           /\ nextObj' = nextObj
           /\ op = "resolveSync" /\ ~last'.threw => last'.value = regObjs[id].instance
           /\ op = "tryResolveSync"
                => last'.value \in {regObjs[id].instance, Undefined}
           /\ op = "resolve"
                => /\ calls'[last'.call].instance = regObjs[id].instance
                   /\ calls'[last'.call].cbCount = 1
                        => /\ calls'[last'.call].cbErr = NoError
                           /\ calls'[last'.call].cbValue = regObjs[id].instance]_vars
   /\ [][\A n \in 1..Len(calls) :
           (calls[n].reg # 0 /\ regObjs[calls[n].reg].kind = "instance"
              /\ calls'[n] # calls[n] /\ calls'[n].cbCount > 0)
           => calls'[n].cbValue = regObjs[calls[n].reg].instance]_vars

\* C5 witness: the callback of a resolve has received the registered instance
\* after its injections completed, and a resolveSync (the last operation)
\* returned the same instance
C5_Witness ==
    /\ last.op = "resolveSync"
    /\ ~last.threw
    /\ last.value = Foo
    /\ \E n \in 1..Len(calls) :
          /\ calls[n].key = last.key
          /\ calls[n].injections # <<>>
          /\ calls[n].cbCount = 1
          /\ calls[n].cbErr = NoError
          /\ calls[n].cbValue = Foo

\* An error that says nothing is registered under key, and names the key
NamesKey(err, key) == err.name = "Unregistered" /\ err.a = key

\* C6: for a key with no registration, resolveSync throws the error naming the
\* key; resolve does not throw and invokes its callback once, with the error
\* naming the key and no instance, and never again; tryResolveSync returns
\* undefined without throwing; and none of them changes the registrations, the
\* Registration objects or their lifetime caches.
C6_UnregisteredKey ==
    [][\A op \in ResolveOps, c \in Containers, key \in Keys :
        (IsResolve(op, c, key) /\ registrations[c][key] = 0)
        => /\ registrations' = registrations
           /\ regObjs' = regObjs
           /\ nextObj' = nextObj
           /\ last'.log = <<>>
           /\ op = "resolveSync"
                => last'.threw /\ NamesKey(last'.err, key)
           /\ op = "tryResolveSync"
                => ~last'.threw /\ last'.value = Undefined
           /\ op = "resolve"
                => /\ ~last'.threw
                   /\ calls'[last'.call].cbCount = 1
                   /\ NamesKey(calls'[last'.call].cbErr, key)
                   /\ calls'[last'.call].cbValue = Undefined
                   /\ calls'[last'.call].pending = {}]_vars
   /\ [][\A n \in 1..Len(calls) : calls[n].pending = {} => calls'[n] = calls[n]]_vars

\* C6 witness: key C, which has no registration while A has one, was resolved
\* with resolve and its callback got the error naming C
C6_Witness ==
    /\ last.op = "resolve"
    /\ last.key = "C"
    /\ isRegistered("parent", "A")
    /\ calls[last.call].cbCount = 1
    /\ NamesKey(calls[last.call].cbErr, "C")

\* C9: when resolve reaches a factory that signals failure e, the callback is
\* invoked once with exactly e and no instance, no injection is run, and
\* lifetime.store is not invoked: the lifetime's cache stays empty.
C9_FactoryFailureUnwrapped ==
    [][\A c \in Containers, key \in Keys :
        LET id == registrations[c][key] IN
        (/\ IsResolve("resolve", c, key)
         /\ id # 0
         /\ regObjs[id].kind = "factory"
         /\ regObjs[id].factory.outcome = "fail"
         /\ StepsOf(last'.log, "factory", id) # <<>>)
        => /\ calls'[last'.call].cbCount = 1
           /\ calls'[last'.call].cbErr = regObjs[id].factory.err
           /\ calls'[last'.call].cbValue = Undefined
           /\ calls'[last'.call].pending = {}
           /\ Invoked(last'.log, id) = <<>>
           /\ StepsOf(last'.log, "store", id) = <<>>
           /\ regObjs' = regObjs
           /\ fetch(regObjs'[id].lifetime) = Undefined]_vars

\* C9 witness: a failing factory registered with a caching lifetime and
\* injections was resolved twice with resolve; the second call went to the
\* factory again and reported its failure
C9_Witness ==
    /\ last.op = "resolve"
    /\ Len(calls) = 2
    /\ calls[1].key = calls[2].key
    /\ calls[1].reg = calls[2].reg
    /\ calls[2].cbErr = UserError("fail")
    /\ regObjs[calls[2].reg].lifetime.policy = "Singleton"
    /\ regObjs[calls[2].reg].injections # <<>>
    /\ StepsOf(last.log, "factory", calls[2].reg) # <<>>

Path(log) == SelectSeq(log, LAMBDA x : x.e \in {"fetch", "build", "factory"})

\* The injections a log shows invoked, for whatever registration, in order
AllInvoked(log) == SelectSeq(log, LAMBDA x : x.e = "inject")

\* The calls of lifetime.store a log shows
Stores(log) == SelectSeq(log, LAMBDA x : x.e = "store")

\* C11: started from the same container state with the same key, resolveSync
\* and resolve take the same path (cache hit, stored instance, built type or
\* factory result), both succeed with the same instance or both fail, invoke
\* the same injections, and call lifetime.store in the same cases, leaving
\* every lifetime cache in the same state. The callback-based call is taken
\* up to its return for the path and the injections, and with its completions
\* processed in list order for the outcome and the caches.
C11_SyncAndAsyncAgree ==
    [][\A c \in Containers, key \in Keys :
        IsResolve("resolve", c, key)
        => LET s == ResolveRec("sync", c, key, ResolutionState, <<>>)
               a == ResolveRec("async", c, key, ResolutionState, <<>>)
           IN  /\ Path(last'.log) = Path(s.st.log)
               /\ (a.err = NoError) <=> (s.err = NoError)
               /\ a.err = NoError => a.value = s.value
               /\ AllInvoked(last'.log) = AllInvoked(s.st.log)
               /\ Stores(a.st.log) = Stores(s.st.log)
               /\ a.st.regObjs = s.st.regObjs]_vars

\* C12: on a cache miss where construction and every injection succeed,
\* resolveSync, tryResolveSync and resolve call lifetime.fetch of the
\* registration exactly once, as their first step, and lifetime.store exactly
\* once, as their last step, after every injection of the list has run (for
\* resolve: in the step that processes the last completion, not before), with
\* the instance the caller receives; for type, instance and factory
\* registrations alike.
C12_FetchOnceStoreOnce ==
    /\ [][\A op \in ResolveOps, c \in Containers, key \in Keys :
          LET id == registrations[c][key] IN
          (/\ IsResolve(op, c, key)
           /\ id # 0
           /\ ~Truthy(fetch(regObjs[id].lifetime)))
          => LET log == last'.log
                 stores == StepsOf(log, "store", id)
                 call == calls'[last'.call]
                 succeeded == IF op = "resolve"
                              THEN call.cbCount = 1 /\ call.cbErr = NoError
                              ELSE ~last'.threw /\ last'.value # Undefined
                 delivered == IF op = "resolve" THEN call.cbValue ELSE last'.value
             IN  /\ Len(StepsOf(log, "fetch", id)) = 1
                 /\ log[1].e = "fetch" /\ log[1].reg = id
                 /\ Len(stores) <= 1
                 /\ succeeded
                      => /\ stores = <<Ev("store", id, delivered, "")>>
                         /\ log[Len(log)] = stores[1]
                         /\ Invoked(log, id) = regObjs[id].injections
                         /\ regObjs'[id].lifetime = store(regObjs[id].lifetime, delivered)
                 /\ (op = "resolve" /\ call.pending # {})
                      => /\ stores = <<>>
                         /\ Invoked(log, id) = regObjs[id].injections
                         /\ call.cbCount = 0]_vars
    /\ [][\A n \in 1..Len(calls) :
          (last'.op = "injectionDone" /\ last'.call = n /\ calls[n].op = "resolve")
          => LET call == calls[n]
                 done == calls'[n].cbCount > call.cbCount /\ calls'[n].cbErr = NoError
             IN  /\ calls'[n].cbCount <= 1
                 /\ done
                      => /\ calls'[n].pending = {}
                         /\ calls'[n].completed = Len(call.injections)
                         /\ last'.log = <<Ev("store", call.reg, call.instance, "")>>
                         /\ calls'[n].cbValue = call.instance
                         /\ regObjs'[call.reg].lifetime
                               = store(regObjs[call.reg].lifetime, call.instance)
                 /\ ~done => last'.log = <<>> /\ regObjs' = regObjs]_vars

\* C12 witness: a factory registered with a caching lifetime and two
\* injections was resolved with resolve; both completions have been processed,
\* the second one stored the factory's product, and the callback received it
C12_Witness ==
    /\ last.op = "injectionDone"
    /\ last.log # <<>>
    /\ last.log[1].e = "store"
    /\ LET call == calls[last.call] IN
          /\ call.op = "resolve"
          /\ regObjs[call.reg].kind = "factory"
          /\ call.injections = <<"i1", "i2">>
          /\ call.pending = {}
          /\ call.cbCount = 1
          /\ call.cbValue = Obj(2)
          /\ regObjs[call.reg].lifetime = store(Singleton, Obj(2))

\* The Registration objects that register calls made for key, oldest first
RegisteredAs(key) ==
    SelectSeq([id \in 1..Len(regObjs) |-> id], LAMBDA id : regObjs[id].name = key)

\* C13: once key K has been registered (any number of times, in any mix of
\* registerType, registerInstance and registerFactory), a resolve, resolveSync
\* or tryResolveSync of K works on the Registration object of the most recent
\* call only: its lifetime is the one fetched and stored to, its kind decides
\* between builder, factory and stored instance, the injections invoked are
\* those of its list, and the call neither reads nor changes a replaced
\* Registration object of any key (no fetch of its lifetime, none of its
\* injections).
C13_LatestRegistrationOnly ==
    [][\A op \in ResolveOps, key \in Keys :
        (IsResolve(op, "parent", key) /\ RegisteredAs(key) # <<>>)
        => LET ids == RegisteredAs(key)
               id == ids[Len(ids)]
               log == last'.log
               ran == Invoked(log, id)
           IN  /\ registrations["parent"][key] = id
               /\ log[1].e = "fetch" /\ log[1].reg = id
               /\ StepsOf(log, "build", id) # <<>> => regObjs[id].kind = "type"
               /\ StepsOf(log, "factory", id) # <<>> => regObjs[id].kind = "factory"
               /\ (op = "resolve" /\ calls'[last'.call].cbValue # Undefined
                      /\ regObjs[id].kind = "instance" /\ log = <<log[1]>>)
                    => calls'[last'.call].cbValue
                         \in {regObjs[id].instance, fetch(regObjs[id].lifetime)}
               /\ (Len(ran) <= Len(regObjs[id].injections)
                      /\ ran = SubSeq(regObjs[id].injections, 1, Len(ran)))
               /\ \A k \in Keys : \A i \in 1..(Len(RegisteredAs(k)) - 1) :
                     LET old == RegisteredAs(k)[i] IN
                     /\ \A j \in 1..Len(log) : log[j].reg # old
                     /\ regObjs'[old] = regObjs[old]
                     /\ stats'[old] = stats[old]
               /\ (Quiet(log) /\ Len(log) = 1 /\ ~last'.threw /\ op # "resolve"
                      /\ last'.value # Undefined)
                    => last'.value \in {regObjs[id].instance,
                                        fetch(regObjs[id].lifetime)}]_vars

\* C13 witness: the instance 'foo' was registered under a key with a caching
\* lifetime and resolved, so that the lifetime holds it; the key was then
\* registered again with another instance, and resolveSync returned that one
C13_Witness ==
    /\ last.op = "resolveSync"
    /\ Len(RegisteredAs(last.key)) = 2
    /\ LET old == RegisteredAs(last.key)[1]
           new == RegisteredAs(last.key)[2]
       IN  /\ regObjs[old].lifetime = store(Singleton, Foo)
           /\ regObjs[old].injections # <<>>
           /\ regObjs[new].kind = "instance"
           /\ regObjs[new].instance = Obj(1)
           /\ last.value = Obj(1)
           /\ stats[old].injRuns = 2

\* ------------------------------------------------------------------ properties of registerFactory and intercept

\* C14: registerFactory called without a key throws, and the call leaves the
\* registrations of every container, the Registration objects, the dependency
\* graphs and the handler lists as they were.
C14_KeylessFactoryRejected ==
    [][(last'.op = "registerFactory" /\ last'.key = NoKey)
        => /\ last'.threw
           /\ last'.err = MissingKeyError
           /\ registrations' = registrations
           /\ regObjs' = regObjs
           /\ graphMap' = graphMap
           /\ arrays' = arrays
           /\ \A c \in Containers : Edges(c)' = Edges(c)
           /\ handlerConfigs' = handlerConfigs
           /\ configObjs' = configObjs]_vars

\* C14 witness: registerFactory without a key was rejected on a container that
\* holds a type registration, an edge in its graph and a committed handler
\* configuration
C14_Witness ==
    /\ last.op = "registerFactory"
    /\ last.key = NoKey
    /\ last.threw
    /\ isRegistered(last.c, "B")
    /\ Edges(last.c) # {}
    /\ handlerConfigs[last.c] # <<>>

\* The entries of container c's handler list that refer to handlerConfig h
EntriesOf(c, h) == {i \in 1..Len(handlerConfigs[c]) : handlerConfigs[c][i].config = h}

\* C15: an intercept call changes no handler list, and a handlerConfig whose
\* sync() and async() were never invoked is in no list; every entry of a
\* handler list has isAsync false if sync() pushed it and true if async()
\* pushed it; and no handler list holds more than one entry of the same
\* intercept call.
C15_HandlerListReflectsCommits ==
    /\ [][last'.op = "intercept" => handlerConfigs' = handlerConfigs]_vars
    /\ [](\A c \in Containers :
            /\ \A i \in 1..Len(handlerConfigs[c]) :
                  LET entry == handlerConfigs[c][i] IN
                  /\ entry.via = "sync" => configObjs[entry.config].isAsync = "false"
                  /\ entry.via = "async" => configObjs[entry.config].isAsync = "true"
            /\ \A h \in 1..Len(configObjs) :
                  /\ Cardinality(EntriesOf(c, h)) <= 1
                  /\ configObjs[h].isAsync = "undefined" => EntriesOf(c, h) = {})

\* ------------------------------------------------------------------ properties of the injection pipeline

\* C16: injectSync on a key without registration throws the error naming the
\* key and invokes no injection; on a registered key it invokes the
\* injections of the registration on the instance in list order, the next one
\* only after the one before has returned (an injection that throws ends the
\* call), all of them when none throws, and does nothing else.
C16_InjectSyncInOrder ==
    [][last'.op = "injectSync"
        => LET id == registrations[last'.c][last'.key]
               ran == AllInvoked(last'.log)
           IN  IF id = 0
               THEN /\ last'.threw
                    /\ NamesKey(last'.err, last'.key)
                    /\ last'.log = <<>>
                    /\ stats' = stats
               ELSE LET injections == regObjs[id].injections IN
                    /\ last'.log = ran
                    /\ Len(ran) <= Len(injections)
                    /\ \A i \in 1..Len(ran) :
                          /\ ran[i].inj = injections[i]
                          /\ ran[i].reg = id
                          /\ ran[i].v = Obj(3)
                          /\ i < Len(ran) => InjectionError(ran[i].inj) = NoError
                    /\ ~last'.threw => Len(ran) = Len(injections)
                    /\ last'.threw
                         => /\ ran # <<>>
                            /\ last'.err = InjectionError(ran[Len(ran)].inj)
                            /\ last'.err # NoError
                    /\ stats'[id].injRuns = stats[id].injRuns + Len(ran)
                    /\ regObjs' = regObjs]_vars

\* C16 witness: injectSync has run the two injections of a registration, the
\* first of the list first
C16_Witness ==
    /\ last.op = "injectSync"
    /\ ~last.threw
    /\ Len(last.log) = 2
    /\ last.log[1].inj = "i1"
    /\ last.log[2].inj = "i2"

\* The step is a resolve or an inject that returned with injections started
\* and waiting for their completions, and n is its call record
Starts(n) ==
    /\ last'.op \in {"resolve", "inject"}
    /\ calls' = Append(calls, calls'[n])
    /\ calls'[n].injections # <<>>

\* The step processes a completion of call n
Completes(n) == last'.op = "injectionDone" /\ last'.call = n

\* Every injection of the list is started (on the instance, in list order)
\* before the call returns, and no completion is processed before that
AllStartedFirst(n) ==
    LET call == calls'[n] IN
    /\ Invoked(last'.log, call.reg) = call.injections
    /\ call.pending = 1..Len(call.injections)
    /\ call.completed = 0
    /\ call.cbCount = 0

\* C17: in the callback-based inject (called directly or by resolve), every
\* injection of the list is started before the completion of any of them is
\* processed, and the completion callback is invoked only when the completion
\* of every injection of the list has been processed, whether the injections
\* succeed or fail and in whatever order they complete.
C17_CallbackAfterAllCompletions ==
    [][\A n \in 1..Len(calls') :
        /\ Starts(n) => AllStartedFirst(n)
        /\ (Completes(n) /\ calls'[n].cbCount > calls[n].cbCount)
             => calls'[n].pending = {}]_vars

\* C17 as amended: every injection of the list is started before the
\* completion of any of them is processed; the completion callback is invoked
\* without an error only when every injection of the list has completed
\* without one, and with an error in the step that processes the first
\* failure, whatever is still pending then; no other step invokes it.
C17_CallbackAfterAllOrAtFirstFailure ==
    [][\A n \in 1..Len(calls') :
        /\ Starts(n) => AllStartedFirst(n)
        /\ Completes(n)
             => LET call == calls[n]
                    invoked == calls'[n].cbCount > call.cbCount
                    firstFailure == last'.err # NoError /\ call.cbErr = NoError
                    lastSuccess == /\ last'.err = NoError
                                   /\ call.cbErr = NoError
                                   /\ calls'[n].pending = {}
                IN  /\ invoked <=> (firstFailure \/ lastSuccess)
                    /\ (invoked /\ firstFailure) => calls'[n].cbErr = last'.err
                    /\ (invoked /\ lastSuccess)
                         => /\ calls'[n].cbErr = NoError
                            /\ calls'[n].completed = Len(call.injections)]_vars

\* C17 witness: the callback of an inject has been invoked with the failure of
\* the first injection of the list while the second one, which was started
\* with it, has not signalled its completion
C17_Witness ==
    \E n \in 1..Len(calls) :
        /\ calls[n].op = "inject"
        /\ calls[n].injections = <<"f1", "i1">>
        /\ calls[n].cbCount = 1
        /\ calls[n].cbErr = UserError("e1")
        /\ calls[n].pending = {2}
        /\ stats[calls[n].reg].injRuns >= 2

\* C18: the completion callback of an inject (called directly or by resolve) is
\* never invoked twice, and has been invoked once when every completion has
\* been processed, in whatever order the injections complete and however many
\* of them fail; it carries the failure of the injection whose failure was
\* processed first, which later completions do not replace; and the callback
\* cancels nothing: the injections that are pending when it runs stay pending
\* and complete one by one.
C18_CallbackExactlyOnce ==
    /\ [](\A n \in 1..Len(calls) :
            /\ calls[n].cbCount <= 1
            /\ calls[n].pending = {} => calls[n].cbCount = 1)
    /\ [][\A n \in 1..Len(calls) :
          Completes(n)
          => LET call == calls[n] IN
             /\ (last'.err # NoError /\ call.cbCount = 0)
                  => calls'[n].cbCount = 1 /\ calls'[n].cbErr = last'.err
             /\ call.cbCount = 1
                  => calls'[n].cbCount = 1 /\ calls'[n].cbErr = call.cbErr
             /\ calls'[n].pending \subseteq call.pending
             /\ Cardinality(calls'[n].pending) = Cardinality(call.pending) - 1
             /\ \A m \in 1..Len(calls) : m # n => calls'[m] = calls[m]]_vars

\* C18 witness: both injections of an inject failed, the second of the list
\* first; the callback was invoked once, with the failure of the second, and
\* the first injection completed after the callback had run
C18_Witness ==
    \E n \in 1..Len(calls) :
        /\ calls[n].op = "inject"
        /\ calls[n].injections = <<"f1", "f2">>
        /\ calls[n].pending = {}
        /\ calls[n].cbCount = 1
        /\ calls[n].cbErr = UserError("e2")
        /\ last.op = "injectionDone"
        /\ last.call = n
        /\ last.err = UserError("e1")

\* ------------------------------------------------------------------ properties of the graph and termination

\* The constructor-argument edges of the type registrations that the map regs
\* holds for container c, objs being the Registration objects
TypeEdgesIn(regs, objs, c) ==
    {e \in Keys \X Keys :
        /\ regs[c][e[1]] # 0
        /\ objs[regs[c][e[1]]].kind = "type"
        /\ InSeq(e[2], objs[regs[c][e[1]]].args)}

\* The edge set E has a cycle
HasCycle(E) == \E k \in Keys : k \in ReachSet(E, {e[2] : e \in {x \in E : x[1] = k}})

\* C19: in every reachable state the dependency graph of a container holds
\* exactly the constructor-argument edges of the type registrations the
\* container currently holds, and a registerType call throws the
\* cyclic-dependency error only when those registrations, with the new one in
\* the place of the one it replaces, contain a cycle.
C19_GraphMatchesRegistrations ==
    /\ [](\A c \in Containers :
            Exists(c) => Edges(c) = TypeEdgesIn(registrations, regObjs, c))
    /\ [][(last'.op = "registerType" /\ regObjs' # regObjs /\ last'.threw)
          => HasCycle(TypeEdgesIn([registrations EXCEPT
                                     ![last'.c][last'.key] = Len(regObjs')],
                                  regObjs', last'.c))]_vars

\* C20: resolveSync of any key, on a container that holds type and instance
\* registrations only, whatever register calls were made before (those that
\* threw the cyclic-dependency error included), never re-enters a key whose
\* resolution is in progress, so that it ends with an instance or an error of
\* the container instead of exhausting the stack.
C20_ResolveSyncTerminates ==
    [][\A c \in Containers, key \in Keys :
        (/\ IsResolve("resolveSync", c, key)
         /\ \A k \in Keys : Lookup(c, k).kind \in {"none", "type", "instance"})
        => last'.err # StackOverflow]_vars

\* ------------------------------------------------------------------ properties of resolving after a fork

\* The step is made on container c by a resolve operation of any form or by
\* the completion of an injection of a resolve issued on c
ResolvesOn(c) ==
    /\ last'.c = c
    /\ \/ resolves' # resolves /\ last'.op \in ResolveOps
       \/ last'.op = "injectionDone"

\* The values that the steps of a log stored for Registration object id
StoredBy(log, id) == {log[i].v : i \in {j \in 1..Len(log) : log[j].e = "store"
                                                          /\ log[j].reg = id}}

\* C21: once the child exists, resolving on one container changes nothing of
\* what the other returns: for a key that both containers hold from before the
\* fork with a caching lifetime, a resolve on one container leaves the cache
\* the other one reads as it was, and the instance that a resolve on one
\* container has just cached is not what a resolve of the key on the other
\* container returns next.
C21_ResolveIsolated ==
    /\ [][\A c \in Containers, key \in Keys :
          LET id == registrations[Other(c)][key] IN
          (/\ forked
           /\ ResolvesOn(c)
           /\ id # 0
           /\ registrations[c][key] = id
           /\ regObjs[id].lifetime.policy = "Singleton")
          => fetch(regObjs'[id].lifetime) = fetch(regObjs[id].lifetime)]_vars
    /\ [][\A c \in Containers, key \in Keys :
          LET id == registrations[c][key] IN
          (/\ forked
           /\ last.c = Other(c)
           /\ last.op \in ResolveOps \cup {"injectionDone"}
           /\ id # 0
           /\ registrations[Other(c)][key] = id
           /\ regObjs[id].lifetime.policy = "Singleton"
           /\ fetch(regObjs[id].lifetime) \in StoredBy(last.log, id)
           /\ \E op \in {"resolveSync", "tryResolveSync"} : IsResolve(op, c, key))
          => last'.value # fetch(regObjs[id].lifetime)]_vars

\* ------------------------------------------------------------------ properties of repeated and overlapping resolves

\* C22: over any sequence of resolve and resolveSync calls, each injection of
\* an instance registration with the transient lifetime is run at most once
\* on the stored instance: the runs of its injections never outnumber the
\* injections of its list, and a resolve of a key whose injections have run
\* runs none of them again.
C22_InjectedOncePerInstance ==
    /\ [](\A id \in 1..Len(regObjs) :
            (regObjs[id].kind = "instance" /\ regObjs[id].lifetime = Transient)
            => stats[id].injRuns <= Len(regObjs[id].injections))
    /\ [][\A op \in ResolveOps, c \in Containers, key \in Keys :
          LET id == registrations[c][key] IN
          (/\ IsResolve(op, c, key)
           /\ id # 0
           /\ regObjs[id].kind = "instance"
           /\ regObjs[id].lifetime = Transient
           /\ stats[id].injRuns > 0)
          => Invoked(last'.log, id) = <<>>]_vars

\* The earlier calls of resolve that call n overlaps: same container, key and
\* Registration object, their injections not all completed when n is issued
Overlapped(n) ==
    {m \in 1..(n - 1) : /\ calls[m].op = "resolve"
                        /\ calls[m].c = calls'[n].c
                        /\ calls[m].key = calls'[n].key
                        /\ calls[m].reg = calls'[n].reg
                        /\ calls[m].pending # {}}

\* C23: when a resolve of a key with a caching lifetime is issued while an
\* earlier resolve of the key is waiting for its injections, the second call
\* gets the instance of the first, constructs nothing and runs no injection;
\* and lifetime.store is invoked at most once for the registration.
C23_OverlappingResolvesShare ==
    /\ [][\A c \in Containers, key \in Keys :
          LET id == registrations[c][key]
              n == Len(calls) + 1
          IN
          (/\ IsResolve("resolve", c, key)
           /\ id # 0
           /\ regObjs[id].lifetime.policy = "Singleton"
           /\ Overlapped(n) # {})
          => /\ \A m \in Overlapped(n) : calls'[n].instance = calls[m].instance
             /\ Quiet(last'.log)]_vars
    /\ [][\A id \in 1..Len(regObjs) :
          (/\ regObjs[id].lifetime.policy = "Singleton"
           /\ StepsOf(last'.log, "store", id) # <<>>
           /\ last' # last)
          => /\ ~regObjs[id].lifetime.has
             /\ Len(StepsOf(last'.log, "store", id)) = 1]_vars

====
